---- MODULE Spec2Model ----
(***************************************************************************)
(* waffle.py: the pipeline parse_waffle_rows (which calls get_top_users)   *)
(* followed by get_limiting_waffles, as do_plot runs it on the rows of the *)
(* csv file.  Python dicts are modelled as sequences of [key, val] records *)
(* so that insertion order, which sorted() and the item loops rely on, is  *)
(* part of the state.  Indices returned by get_limiting_waffles keep       *)
(* Python's 0-based values.                                                *)
(***************************************************************************)
EXTENDS Integers, Sequences, FiniteSets

\* ---------------------------------------------------------------- bounds
MaxRows == 3
MaxQuantity == 1
MaxRank == 3

Usernames == {"A", "B"}
Months == {1, 2}
Days == {1, 2}

\* ---------------------------------------------------------------- state
VARIABLES rows, MAX_RANK, pc, row_index,
          users, top_prev_day, top_users,
          user_counts, consumption_times, history_lookup, prev_day,
          limit_index, first_waffle, last_waffle

vars == <<rows, MAX_RANK, pc, row_index, users, top_prev_day, top_users,
          user_counts, consumption_times, history_lookup, prev_day,
          limit_index, first_waffle, last_waffle>>

\* prev_day = None
NoDay == 0

\* ---------------------------------------------------------------- input
\* A parsed timestamp: the fields of the datetime the code looks at.
Times == [month : Months, day : Days]

Rows == [username : Usernames, waffles : 0..MaxQuantity, time : Times]

\* t1 is not later than t2
NotLater(t1, t2) ==
    \/ t1.month < t2.month
    \/ t1.month = t2.month /\ t1.day <= t2.day

\* the csv file is in chronological order
Chronological(rs) ==
    \A i \in 1..(Len(rs) - 1) : NotLater(rs[i].time, rs[i + 1].time)

RowLists ==
    {rs \in UNION {[1..n -> Rows] : n \in 0..MaxRows} : Chronological(rs)}

\* consumption_time.day
DayOf(time) == time.day

\* ---------------------------------------------------------------- helpers
Min(a, b) == IF a <= b THEN a ELSE b

Max(a, b) == IF a >= b THEN a ELSE b

\* the keys of a dict, as a set
KeySet(d) == {d[i].key : i \in 1..Len(d)}

\* d[k] for a key the dict holds
Get(d, k) == d[CHOOSE i \in 1..Len(d) : d[i].key = k].val

\* d[k] of a defaultdict: the default for a missing key
GetDefault(d, k, default) == IF k \in KeySet(d) THEN Get(d, k) ELSE default

\* d[k] = v: an existing key keeps its position, a new key goes last
Put(d, k, v) ==
    IF k \in KeySet(d)
    THEN [i \in 1..Len(d) |-> IF d[i].key = k THEN [key |-> k, val |-> v] ELSE d[i]]
    ELSE Append(d, [key |-> k, val |-> v])

RECURSIVE DictUpdateFrom(_, _, _)
DictUpdateFrom(d, items, n) ==
    IF n = 0 THEN d
    ELSE Put(DictUpdateFrom(d, items, n - 1), items[n].key, items[n].val)

\* d.update(items)
DictUpdateReplacing(d, items) == items

DictUpdate(d, items) == DictUpdateFrom(d, items, Len(items))

\* one step of a stable descending sort: e goes after every item that is
\* not smaller
InsertDescending(s, e) ==
    LET smaller == {j \in 1..Len(s) : s[j].val < e.val}
        p == IF smaller = {} THEN Len(s) + 1
             ELSE CHOOSE j \in smaller : \A l \in smaller : j <= l
    IN SubSeq(s, 1, p - 1) \o <<e>> \o SubSeq(s, p, Len(s))

RECURSIVE SortedFrom(_, _)
SortedFrom(d, n) ==
    IF n = 0 THEN <<>> ELSE InsertDescending(SortedFrom(d, n - 1), d[n])

\* sorted(users, key=users.get, reverse=True), each key with its count
SortedReverse(d) == SortedFrom(d, Len(d))

\* [:MAX_RANK]
SliceShort(s, n) == SubSeq(s, 1, Min(n - 1, Len(s)))

Slice(s, n) == SubSeq(s, 1, Min(n, Len(s)))

\* consumption_time.day != prev_day
IsNewDayAlways(day, prev) == TRUE

IsNewDayInverted(day, prev) == day = prev

IsNewDay(day, prev) == day # prev

\* ---------------------------------------------------------------- get_top_users
Init ==
    /\ rows \in RowLists
    /\ MAX_RANK \in 1..MaxRank
    /\ pc = "get_top_users"
    /\ row_index = 1
    /\ users = <<>>
    /\ top_prev_day = NoDay
    /\ top_users = <<>>
    /\ user_counts = <<>>
    /\ consumption_times = <<>>
    /\ history_lookup = <<>>
    /\ prev_day = NoDay
    /\ limit_index = 1
    /\ first_waffle = <<>>
    /\ last_waffle = <<>>

\* one iteration of the loop over rows
TopUsersRow ==
    /\ pc = "get_top_users"
    /\ row_index <= Len(rows)
    /\ LET row == rows[row_index]
           users1 == Put(users, row.username,
                         GetDefault(users, row.username, 0) + row.waffles)
       IN /\ users' = users1
          /\ top_users' =
                IF IsNewDay(DayOf(row.time), top_prev_day)
                THEN DictUpdate(top_users, Slice(SortedReverse(users1), MAX_RANK))
                ELSE top_users
          /\ top_prev_day' = DayOf(row.time)
    /\ row_index' = row_index + 1
    /\ UNCHANGED <<rows, MAX_RANK, pc, user_counts, consumption_times,
                   history_lookup, prev_day, limit_index, first_waffle, last_waffle>>

\* return top_users, and the set-up of parse_waffle_rows
TopUsersReturn ==
    /\ pc = "get_top_users"
    /\ row_index > Len(rows)
    /\ user_counts' = [i \in 1..Len(top_users) |-> [key |-> top_users[i].key, val |-> 0]]
    /\ consumption_times' = <<>>
    /\ history_lookup' = <<>>
    /\ prev_day' = NoDay
    /\ row_index' = 1
    /\ pc' = "parse_waffle_rows"
    /\ UNCHANGED <<rows, MAX_RANK, users, top_prev_day, top_users,
                   limit_index, first_waffle, last_waffle>>

\* ---------------------------------------------------------------- parse_waffle_rows
\* the generator's next row: the first row from index i on whose user is
\* in top_users, Len(rows) + 1 when there is none
RECURSIVE NextFiltered(_)
NextFiltered(i) ==
    IF i > Len(rows) THEN i
    ELSE IF rows[i].username \in KeySet(top_users) THEN i
    ELSE NextFiltered(i + 1)

\* += int(row[COL_WAFFLES])
AddWafflesAssign(count, waffles) == waffles

AddWaffles(count, waffles) == count + waffles

RECURSIVE AppendCountsFrom(_, _, _)
AppendCountsFrom(hl, counts, n) ==
    IF n = 0 THEN hl
    ELSE LET done == AppendCountsFrom(hl, counts, n - 1)
             user == counts[n].key
         IN Put(done, user, Append(GetDefault(done, user, <<>>), counts[n].val))

\* for user, count in user_counts.items(): history_lookup[user].append(count)
AppendCountsNonZero(hl, counts) ==
    AppendCountsFrom(hl, SelectSeq(counts, LAMBDA item : item.val # 0),
                     Len(SelectSeq(counts, LAMBDA item : item.val # 0)))

AppendCounts(hl, counts) == AppendCountsFrom(hl, counts, Len(counts))

\* one iteration of the loop over the filtered rows
ParseRow ==
    /\ pc = "parse_waffle_rows"
    /\ NextFiltered(row_index) <= Len(rows)
    /\ LET i == NextFiltered(row_index)
           row == rows[i]
           counts1 == Put(user_counts, row.username,
                          AddWaffles(Get(user_counts, row.username), row.waffles))
       IN /\ user_counts' = counts1
          /\ IF IsNewDay(DayOf(row.time), prev_day)
             THEN /\ history_lookup' = AppendCounts(history_lookup, counts1)
                  /\ consumption_times' = Append(consumption_times, row.time)
             ELSE UNCHANGED <<history_lookup, consumption_times>>
          /\ prev_day' = DayOf(row.time)
          /\ row_index' = i + 1
    /\ UNCHANGED <<rows, MAX_RANK, pc, users, top_prev_day, top_users,
                   limit_index, first_waffle, last_waffle>>

\* return consumption_times, history_lookup, and the set-up of
\* get_limiting_waffles
ParseReturn ==
    /\ pc = "parse_waffle_rows"
    /\ NextFiltered(row_index) > Len(rows)
    /\ row_index' = Len(rows) + 1
    /\ limit_index' = 1
    /\ first_waffle' = <<>>
    /\ last_waffle' = <<>>
    /\ pc' = "get_limiting_waffles"
    /\ UNCHANGED <<rows, MAX_RANK, users, top_prev_day, top_users,
                   user_counts, consumption_times, history_lookup, prev_day>>

\* ---------------------------------------------------------------- get_limiting_waffles
\* the loop over reversed(history): k is the (1-based) position looked at,
\* the result is last_index when the loop is left
RECURSIVE BackwardScan(_, _, _)
BackwardScan(history, k, next_wafflecount) ==
    IF k = 0 THEN 0
    ELSE IF history[k] # next_wafflecount THEN k - 1
    ELSE BackwardScan(history, k - 1, history[k])

\* last_waffle[username]
LastWaffle(history) ==
    Min(BackwardScan(history, Len(history), history[Len(history)]) + 1, Len(history))

\* the loop over history: the result is first_index when the loop is left
RECURSIVE ForwardScan(_, _, _, _)
ForwardScan(history, k, prev_wafflecount, first_index) ==
    IF k > Len(history) THEN first_index
    ELSE IF history[k] # prev_wafflecount THEN first_index
    ELSE ForwardScan(history, k + 1, prev_wafflecount, first_index + 1)

\* first_waffle[username]
FirstWaffle(history) == Max(ForwardScan(history, 1, history[1], 0) - 1, 0)

\* one iteration of the loop over history_lookup.items(); history[LAST] of
\* an empty history raises IndexError
LimitUser ==
    /\ pc = "get_limiting_waffles"
    /\ limit_index <= Len(history_lookup)
    /\ LET username == history_lookup[limit_index].key
           history == history_lookup[limit_index].val
       IN /\ Len(history) >= 1
          /\ last_waffle' = Put(last_waffle, username, LastWaffle(history))
          /\ first_waffle' = Put(first_waffle, username, FirstWaffle(history))
    /\ limit_index' = limit_index + 1
    /\ UNCHANGED <<rows, MAX_RANK, pc, row_index, users, top_prev_day, top_users,
                   user_counts, consumption_times, history_lookup, prev_day>>

\* return first_waffle, last_waffle
LimitReturn ==
    /\ pc = "get_limiting_waffles"
    /\ limit_index > Len(history_lookup)
    /\ pc' = "done"
    /\ UNCHANGED <<rows, MAX_RANK, row_index, users, top_prev_day, top_users,
                   user_counts, consumption_times, history_lookup, prev_day,
                   limit_index, first_waffle, last_waffle>>

Next ==
    \/ TopUsersRow
    \/ TopUsersReturn
    \/ ParseRow
    \/ ParseReturn
    \/ LimitUser
    \/ LimitReturn

Spec == Init /\ [][Next]_vars

\* ---------------------------------------------------------------- properties
\* the users named in a list of rows
ActorsIn(rs) == {rs[i].username : i \in 1..Len(rs)}

\* the number of rows get_top_users has been through
Processed == IF pc = "get_top_users" THEN row_index - 1 ELSE Len(rows)

\* the rows among the first n whose day-of-month differs from that of the
\* row before (the first row always does)
SnapshotRows(n) ==
    {i \in 1..n : i = 1 \/ rows[i].time.day # rows[i - 1].time.day}

\* the last of them, 0 when there is no row
LastSnapshotRow ==
    IF rows = <<>> THEN 0
    ELSE CHOOSE i \in SnapshotRows(Len(rows)) : \A j \in SnapshotRows(Len(rows)) : j <= i

\* a history_lookup value under defaultdict(list)
HistoryOf(user) == GetDefault(history_lookup, user, <<>>)

IsConstant(history) == \A j \in 1..Len(history) : history[j] = history[1]

\* the rows parse_waffle_rows keeps
CohortRows == {i \in 1..Len(rows) : rows[i].username \in KeySet(top_users)}

\* C1: every span get_limiting_waffles returns for a history built by
\* parse_waffle_rows satisfies 0 <= first <= last <= len(history).
SpanInvariant ==
    \A i \in 1..Len(first_waffle) :
        LET user == first_waffle[i].key
        IN /\ 0 <= first_waffle[i].val
           /\ first_waffle[i].val <= Get(last_waffle, user)
           /\ Get(last_waffle, user) <= Len(HistoryOf(user))

\* C2 as stated: the dict get_top_users returns has at most MAX_RANK keys.
CohortAtMostMaxRank ==
    pc # "get_top_users" => Cardinality(KeySet(top_users)) <= MAX_RANK

\* C2 as amended: top_users has at most MAX_RANK keys for each snapshot
\* taken so far, and never more keys than there are users in the rows read.
CohortAtMostMaxRankPerSnapshot ==
    /\ Cardinality(KeySet(top_users)) <= MAX_RANK * Cardinality(SnapshotRows(Processed))
    /\ Cardinality(KeySet(top_users)) <= Cardinality(ActorsIn(SubSeq(rows, 1, Processed)))

CohortLargerThanMaxRank ==
    /\ pc = "done"
    /\ Cardinality(KeySet(top_users)) > MAX_RANK

\* C3: after any number of filtered rows, every user of top_users has a
\* history as long as consumption_times.
HistoryLengthsMatch ==
    \A user \in KeySet(top_users) : Len(HistoryOf(user)) = Len(consumption_times)

TwoUsersTwoDaysMidway ==
    /\ pc = "parse_waffle_rows"
    /\ NextFiltered(row_index) <= Len(rows)
    /\ Len(consumption_times) >= 2
    /\ Cardinality(KeySet(history_lookup)) >= 2

\* C4: with non-negative waffle counts every history is non-decreasing.
HistoryNonDecreasing ==
    \A i \in 1..Len(history_lookup) :
        \A j \in 1..(Len(history_lookup[i].val) - 1) :
            history_lookup[i].val[j] <= history_lookup[i].val[j + 1]

HistoryRises ==
    /\ pc = "done"
    /\ \E i \in 1..Len(history_lookup) :
           \E j \in 1..(Len(history_lookup[i].val) - 1) :
               history_lookup[i].val[j] < history_lookup[i].val[j + 1]

\* C5: a user that is a key of top_users stays one through every later
\* step of get_top_users and in the dict it returns.
CohortOnlyGrows == [][KeySet(top_users) \subseteq KeySet(top_users')]_vars

MemberOutOfTopRank ==
    /\ pc = "done"
    /\ \E user \in KeySet(top_users) :
           user \notin KeySet(Slice(SortedReverse(users), MAX_RANK))

\* C6 as stated: with fewer than MAX_RANK distinct users in the rows, the
\* dict get_top_users returns has every one of them as a key.
FewActorsAllInCohort ==
    (pc # "get_top_users" /\ Cardinality(ActorsIn(rows)) < MAX_RANK)
        => ActorsIn(rows) \subseteq KeySet(top_users)

\* C6 as amended: with fewer than MAX_RANK distinct users in the rows, the
\* keys of the returned dict are exactly the users that occur up to and
\* including the last row whose day-of-month differs from the row before.
FewActorsCohortUpToLastSnapshot ==
    (pc # "get_top_users" /\ Cardinality(ActorsIn(rows)) < MAX_RANK)
        => KeySet(top_users) = ActorsIn(SubSeq(rows, 1, LastSnapshotRow))

FewActorsOneLeftOut ==
    /\ pc = "done"
    /\ Cardinality(ActorsIn(rows)) < MAX_RANK
    /\ ActorsIn(rows) # KeySet(top_users)

\* C7: for a history that is not constant, last is one more than the
\* (0-based) index of the last entry that differs from the entry before it.
LastIsOnePastLastChange ==
    \A i \in 1..Len(last_waffle) :
        LET history == HistoryOf(last_waffle[i].key)
            changes == {j \in 2..Len(history) : history[j] # history[j - 1]}
        IN ~IsConstant(history) =>
               \E j \in changes :
                   /\ \A l \in changes : l <= j
                   /\ last_waffle[i].val = (j - 1) + 1

\* C8: for a constant history, first is 0 and last is len(history).
ConstantHistoryFullSpan ==
    \A i \in 1..Len(last_waffle) :
        LET user == last_waffle[i].key
        IN IsConstant(HistoryOf(user)) =>
               /\ Get(first_waffle, user) = 0
               /\ last_waffle[i].val = Len(HistoryOf(user))

\* C9: consumption_times holds one timestamp for each distinct date (month
\* and day) among the filtered rows, so it is as long as there are such dates.
OneTimestampPerDate ==
    pc \in {"get_limiting_waffles", "done"} =>
        LET dates == {rows[i].time : i \in CohortRows}
        IN /\ Len(consumption_times) = Cardinality(dates)
           /\ {consumption_times[j] : j \in 1..Len(consumption_times)} = dates

\* C10: when there is at least one row, the user of the first row is a key
\* of top_users once that row is read, and every history handed to
\* get_limiting_waffles has at least one entry.
FirstActorInCohortAndHistoriesNonEmpty ==
    /\ Processed >= 1 => rows[1].username \in KeySet(top_users)
    /\ (pc \in {"get_limiting_waffles", "done"} /\ rows # <<>>) =>
           /\ Len(history_lookup) >= 1
           /\ \A i \in 1..Len(history_lookup) : Len(history_lookup[i].val) >= 1

TwoSpansComputed ==
    /\ pc = "done"
    /\ rows # <<>>
    /\ Len(first_waffle) >= 2

====
